---- MODULE Spec2Model ----
(***************************************************************************)
(* The DDPG agent of quad_controller_rl/agents/policy_gradient.py as a     *)
(* state machine.  The agent's fields are the variables; step(), learn()   *)
(* and soft_update() are the actions.  Actor, Critic, ReplayBuffer and     *)
(* OUNoise live in sibling modules of the package; they are modelled here  *)
(* from their contracts (sections 4.1 - 4.4 of the specification).         *)
(*                                                                         *)
(* Numbers.  Network parameters, gamma and tau are exact rationals         *)
(* <<num, den>> (den > 0, lowest terms).  A parameter set is one rational. *)
(* States, actions, rewards and the noise are integer vectors.             *)
(***************************************************************************)
EXTENDS Integers, Sequences, FiniteSets, Bags, TLC

VARIABLES
    self,          \* the agent's fields (see Construct)
    stats_file,    \* the CSV file at stats_filename: None, or Some(its lines)
    hist,          \* history: one record per step() call
    learns,        \* history: one record per learn() call
    softs,         \* history: one record per soft_update() call
    errors         \* history: one record per step() call that raised

vars == <<self, stats_file, hist, learns, softs, errors>>

\* the four parameter sets of the agent a
Params(a) == <<a.actor_local, a.actor_target, a.critic_local, a.critic_target>>

-----------------------------------------------------------------------------
(* Bounds of the model                                                     *)

MaxCalls    == 4      \* step() calls in a run of Spec
MaxLearns   == 3      \* learn() calls in a run of SpecLearn
MaxSofts    == 2      \* soft_update() calls in a run of SpecSoft
MaxCallsE2E == 66     \* step() calls in a run of SpecE2E
MaxCallsCap == 5      \* step() calls in a run of SpecCap
MaxCallsShort == 3    \* step() calls in a run of SpecShort

-----------------------------------------------------------------------------
(* Python values                                                           *)

None    == <<>>                  \* an absent value
Some(x) == <<x>>                 \* a present value
Val(o)  == o[1]

Min(a, b) == IF a < b THEN a ELSE b
Max(a, b) == IF a < b THEN b ELSE a
Abs(a)    == IF a < 0 THEN -a ELSE a

RECURSIVE GCD(_, _)
GCD(a, b) == IF b = 0 THEN Abs(a) ELSE GCD(b, a % b)

\* rationals in lowest terms with a positive denominator
Rat(n, d) ==
    LET s == IF d < 0 THEN -1 ELSE 1
        g == GCD(Abs(n), Abs(d))
    IN  <<(s * n) \div g, (s * d) \div g>>
RI(n)      == <<n, 1>>
RAdd(a, b) ==
    LET g == GCD(a[2], b[2])
        l == (a[2] \div g) * b[2]
    IN  Rat(a[1] * (l \div a[2]) + b[1] * (l \div b[2]), l)
RNeg(a)    == <<-a[1], a[2]>>
RSub(a, b) == RAdd(a, RNeg(b))
RMul(a, b) ==
    LET g1 == GCD(Abs(a[1]), b[2])
        g2 == GCD(Abs(b[1]), a[2])
        h1 == IF g1 = 0 THEN 1 ELSE g1
        h2 == IF g2 = 0 THEN 1 ELSE g2
    IN  Rat((a[1] \div h1) * (b[1] \div h2), (a[2] \div h2) * (b[2] \div h1))
RFloor(a)  == a[1] \div a[2]
RECURSIVE RPow(_, _)
RPow(a, k) == IF k = 0 THEN RI(1) ELSE RMul(a, RPow(a, k - 1))

\* the sum of an integer sequence: the positive entries less the negative ones
Sum(v) ==
    LET pos == [i \in {k \in DOMAIN v : v[k] > 0} |-> v[i]]
        neg == [i \in {k \in DOMAIN v : v[k] < 0} |-> -v[i]]
    IN  BagCardinality(pos) - BagCardinality(neg)

Sign(x) == IF x > 0 THEN 1 ELSE IF x < 0 THEN -1 ELSE 0

\* least common multiple of a set of positive integers
RECURSIVE LcmSet(_)
LcmSet(S) ==
    IF S = {} THEN 1
    ELSE LET x == CHOOSE y \in S : TRUE
             l == LcmSet(S \ {x})
         IN  (x \div GCD(x, l)) * l

\* a numpy array: the sequence f with every entry evaluated
Array(f) == f \o <<>>

VecAdd(u, v) == Array([j \in 1..Len(u) |-> u[j] + v[j]])

\* numpy: x.astype(np.uint8) of a boolean, and uint8 arithmetic
Uint8(b)       == IF b THEN 1 ELSE 0
Uint8Sub(a, b) == (a - b) % 256

-----------------------------------------------------------------------------
(* The task (environment): action_space of shape (6,), bounds per entry.   *)

ActionSpaceShape == 6
ActionSpaceLow   == [j \in 1..ActionSpaceShape |-> -2]
ActionSpaceHigh  == [j \in 1..ActionSpaceShape |-> 2]

state_size  == 3
action_size == 3
action_low  == SubSeq(ActionSpaceLow, 1, action_size)
action_high == SubSeq(ActionSpaceHigh, 1, action_size)

\* Python slice v[0:3]
Slice03(v) == SubSeq(v, 1, Min(3, Len(v)))

-----------------------------------------------------------------------------
(* Actor: predict is a forward pass into [action_low, action_high]; train  *)
(* is one gradient-ascent step along the supplied action gradients.        *)

Clip(x, lo, hi) == Max(lo, Min(hi, x))

ActorPredict(w, s) ==
    Array([j \in 1..action_size |->
              Clip(RFloor(w) + s[j], action_low[j], action_high[j])])

ActorTrain(w, states, action_gradients) ==
    LET g == Sum([i \in 1..Len(states) |-> Sum(action_gradients[i])])
    IN  RAdd(w, RI(Sign(g)))

(* Critic: predict is Q(s, a); train is one descent step on the squared    *)
(* error against the targets; action gradients are dQ/da, a read-only      *)
(* query.                                                                  *)

CriticPredict(w, s, a) == RFloor(w) * Sum(a) + Sum(s)

CriticTrain(w, states, actions, targets) ==
    LET D   == LcmSet({targets[i][2] : i \in 1..Len(targets)})
        err == Sum([i \in 1..Len(states) |->
                   (targets[i][1] * (D \div targets[i][2])
                      - D * CriticPredict(w, states[i], actions[i])) * Sum(actions[i])])
    IN  RAdd(w, RI(Sign(err)))

CriticActionGradients(w, s, a) == Array([j \in 1..action_size |-> RFloor(w)])

(* OUNoise: sample() moves the state x to x + theta*(mu - x) + sigma*xi    *)
(* and returns it; theta = 1/2 (rounded down), sigma = 1, mu = 0.          *)

NoiseMu == [j \in 1..action_size |-> 0]
Xi == { <<0, 0, 0>>, <<1, -1, 0>> }
NoiseSample(x, xi) ==
    Array([j \in 1..action_size |-> x[j] + ((NoiseMu[j] - x[j]) \div 2) + xi[j]])

(* ReplayBuffer: bounded, oldest first; add evicts the oldest entry when   *)
(* full; sample draws batch_size entries without replacement.              *)

Transition(s, a, r, s2, d) ==
    [state |-> s, action |-> a, reward |-> r, next_state |-> s2, done |-> d]

MemoryAdd(mem, capacity, e) ==
    IF Len(mem) < capacity THEN Append(mem, e)
    ELSE IF capacity = 0 THEN mem
    ELSE Append(Tail(mem), e)

\* the m-element subsets of 1..n, built one element at a time
RECURSIVE Choose(_, _)
Choose(n, m) ==
    IF m = 0 THEN {{}}
    ELSE UNION {{S \cup {x} : x \in {y \in 1..n : \A z \in S : y > z}} : S \in Choose(n, m - 1)}

\* the k-element subsets of 1..n
KSubsets(n, k) ==
    IF k > n THEN {}
    ELSE IF 2 * k <= n THEN Choose(n, k)
    ELSE {(1..n) \ S : S \in Choose(n, n - k)}

\* the entries of mem at the indices idx, in buffer order
PickFrom(mem, idx) ==
    Array([j \in 1..Cardinality(idx) |->
             Some(mem[CHOOSE i \in idx : Cardinality({x \in idx : x < i}) = j - 1])])

\* every batch sample(k) can return
MemorySample(mem, k) == {PickFrom(mem, idx) : idx \in KSubsets(Len(mem), k)}

-----------------------------------------------------------------------------
(* DDPG.act: the local actor's prediction plus the noise sample.           *)

\* faulty act: the noisy action clipped to the action range
ActClipped(w_actor_local, states, sample) ==
    Array([j \in 1..action_size |->
              Clip(ActorPredict(w_actor_local, states)[j] + sample[j],
                   action_low[j], action_high[j])])
\* act(states): actor_local.model.predict(states) + noise.sample()
Act(w_actor_local, states, sample) == VecAdd(ActorPredict(w_actor_local, states), sample)

-----------------------------------------------------------------------------
(* DDPG.soft_update: new_weights = tau*local + (1 - tau)*target.           *)

\* faulty updates: local and target swapped, and a hard copy of the local
SoftUpdateSwapped(t, local_weights, target_weights) ==
    RAdd(RMul(t, target_weights), RMul(RSub(RI(1), t), local_weights))
SoftUpdateCopy(t, local_weights, target_weights) == local_weights
\* new_weights of soft_update(local_model, target_model)
SoftUpdateWeights(t, local_weights, target_weights) ==
    RAdd(RMul(t, local_weights), RMul(RSub(RI(1), t), target_weights))

-----------------------------------------------------------------------------
(* DDPG.learn                                                              *)

\* the entries kept by "for e in experiences if e is not None"
NotNone(experiences) == SelectSeq(experiences, LAMBDA e : e # None)

\* actions_next = actor_target.predict_on_batch(next_states)
ActionsNext(w_actor_local, w_actor_target, next_states) ==
    Array([i \in 1..Len(next_states) |-> ActorPredict(w_actor_target, next_states[i])])

\* Q_target_next = critic_target.predict_on_batch([next_states, actions_next])
QTargetNext(w_critic_local, w_critic_target, next_states, actions_next) ==
    Array([i \in 1..Len(next_states) |->
              CriticPredict(w_critic_target, next_states[i], actions_next[i])])

\* faulty targets: the (1 - dones) factor dropped
QTargetsNoMask(rewards, g, Q_target_next, dones) ==
    Array([i \in 1..Len(rewards) |->
              RAdd(RI(rewards[i]), RMul(g, RI(Q_target_next[i])))])
\* Q_targets = rewards + gamma * Q_target_next * (1 - dones), dones as uint8
QTargets(rewards, g, Q_target_next, dones) ==
    Array([i \in 1..Len(rewards) |->
              RAdd(RI(rewards[i]),
                   RMul(RMul(g, RI(Q_target_next[i])),
                        RI(Uint8Sub(1, Uint8(dones[i])))))])

\* faulty training: the gradient step applied to the target critic
CriticFitTarget(w_critic_local, w_critic_target, states, actions, Q_targets) ==
    <<w_critic_local, CriticTrain(w_critic_target, states, actions, Q_targets)>>
\* critic_local.model.train_on_batch(x=[states, actions], y=Q_targets):
\* the (local, target) critic parameters after it
CriticFit(w_critic_local, w_critic_target, states, actions, Q_targets) ==
    <<CriticTrain(w_critic_local, states, actions, Q_targets), w_critic_target>>

\* actor_local.train_fn([states, action_gradients, 1]):
\* the (local, target) actor parameters after it
ActorFit(w_actor_local, w_actor_target, states, action_gradients) ==
    <<ActorTrain(w_actor_local, states, action_gradients), w_actor_target>>

\* faulty stacking: an empty batch goes through
EmptyBatchAccepted(n) == FALSE
\* np.vstack([...]) of line 100 raises when no entry is left
EmptyBatchFails(n) == n = 0

\* faulty order: the action gradients taken before the critic is trained
CriticBeforeTraining(before_training, after_training) == before_training
\* the critic_local that get_action_gradients queries: train_on_batch has run
CriticForGradients(before_training, after_training) == after_training

\* learn(experiences) from the parameters p = <<actor_local, actor_target,
\* critic_local, critic_target>>: whether it returned (np.vstack of an empty
\* list raises), the parameters after it, and what it computed on the way.
Learn(p, g, t, experiences) ==
    LET es          == NotNone(experiences)
        n           == Len(es)
        states      == Array([i \in 1..n |-> Val(es[i]).state])
        actions     == Array([i \in 1..n |-> Val(es[i]).action])
        rewards     == Array([i \in 1..n |-> Val(es[i]).reward])
        dones       == Array([i \in 1..n |-> Val(es[i]).done])
        next_states == Array([i \in 1..n |-> Val(es[i]).next_state])
        actions_next  == ActionsNext(p[1], p[2], next_states)
        Q_target_next == QTargetNext(p[3], p[4], next_states, actions_next)
        Q_targets     == QTargets(rewards, g, Q_target_next, dones)
        critic1 == CriticFit(p[3], p[4], states, actions, Q_targets)
        action_gradients ==
            Array([i \in 1..n |->
                     CriticActionGradients(CriticForGradients(p[3], critic1[1]),
                                           states[i], actions[i])])
        actor1  == ActorFit(p[1], p[2], states, action_gradients)
        critic2 == <<critic1[1], SoftUpdateWeights(t, critic1[1], critic1[2])>>
        actor2  == <<actor1[1], SoftUpdateWeights(t, actor1[1], actor1[2])>>
    IN  IF EmptyBatchFails(n)
        THEN [ok |-> FALSE, experiences |-> experiences,
              before |-> p, tau |-> t, gamma |-> g,
              states |-> <<>>, actions |-> <<>>, rewards |-> <<>>, dones |-> <<>>,
              next_states |-> <<>>,
              actions_next |-> <<>>, Q_target_next |-> <<>>, Q_targets |-> <<>>,
              critic_fit |-> <<p[3], p[4]>>, action_gradients |-> <<>>,
              actor_fit |-> <<p[1], p[2]>>, after |-> p]
        ELSE \* the fields in the order learn() computes them
             [ok |-> TRUE, experiences |-> experiences,
              before |-> p, tau |-> t, gamma |-> g,
              states |-> states, actions |-> actions, rewards |-> rewards,
              dones |-> dones, next_states |-> next_states,
              actions_next |-> actions_next, Q_target_next |-> Q_target_next,
              Q_targets |-> Q_targets,
              critic_fit |-> critic1,
              action_gradients |-> action_gradients,
              actor_fit |-> actor1,
              after |-> <<actor2[1], actor2[2], critic2[1], critic2[2]>>]

-----------------------------------------------------------------------------
(* DDPG.reset_episode_vars, DDPG.write_stats                               *)

\* faulty reset: last_state and last_action survive the episode end
ResetKeepsLast(a) ==
    [last_state |-> a.last_state, last_action |-> a.last_action,
     total_reward |-> 0, count |-> 0]
\* faulty reset: total_reward survives the episode end
ResetKeepsTotal(a) ==
    [last_state |-> None, last_action |-> None,
     total_reward |-> a.total_reward, count |-> 0]
\* reset_episode_vars()
ResetEpisodeVars(a) ==
    [last_state |-> None, last_action |-> None, total_reward |-> 0, count |-> 0]

HeaderLine == [header |-> TRUE, episode |-> 0, total_reward |-> 0]
Row(stats) == [header |-> FALSE, episode |-> stats[1], total_reward |-> stats[2]]

\* faulty write: the header with every row
WriteStatsHeaderAlways(file, stats) ==
    IF file = None THEN Some(<<HeaderLine, Row(stats)>>)
    ELSE Some(Val(file) \o <<HeaderLine, Row(stats)>>)
\* to_csv(mode='a', header=not os.path.isfile(stats_filename))
WriteStats(file, stats) ==
    IF file = None THEN Some(<<HeaderLine, Row(stats)>>)
    ELSE Some(Append(Val(file), Row(stats)))

-----------------------------------------------------------------------------
(* DDPG.step                                                               *)

\* faulty guard: "is None" for "is not None" on last_action
StoreGuardFirstCallOnly(ls, la) == ls # None /\ la = None
\* "if self.last_state is not None and self.last_action is not None"
StoreGuard(ls, la) == ls # None /\ la # None

\* faulty order: sample() before add()
MemoryBeforeAdd(before_add, after_add) == before_add
\* the buffer contents the learning gate and sample() see: add() has run
MemoryAtLearn(before_add, after_add) == after_add

\* faulty gates: a non-strict comparison, one that opens a call late, and
\* an equality
LearnGateGe(len, bs) == len >= bs
LearnGateLate(len, bs) == len > bs + 1
LearnGateEq(len, bs) == len = bs
\* "if len(self.memory) > self.batch_size"
LearnGate(len, bs) == len > bs

\* complete_action = np.zeros(shape); complete_action[0:3] = action
CompleteAction(action) ==
    Array([j \in 1..ActionSpaceShape |-> IF j <= 3 THEN action[j] ELSE 0])

\* faulty accumulation: "=" for "+="
AccumulateOverwrite(total, reward) == reward
\* total_reward after "self.total_reward += reward"
Accumulate(total, reward) == total + reward

\* faulty episode end: the noise process reset with the episode variables
NoiseResetOnDone(sampled, done) == IF done THEN NoiseMu ELSE sampled
\* the noise state when step() returns: only act's sample() has touched it
NoiseAfterCall(sampled, done) == sampled

\* faulty capacity: the buffer built one entry too large
MemoryCapacityPlusOne(buffer_size) == buffer_size + 1
\* the capacity of self.memory: ReplayBuffer(self.buffer_size)
MemoryCapacity(buffer_size) == buffer_size

\* step(state, reward, done), xi being the normal draw of noise.sample()
Step(state, reward, done, xi) ==
    /\ Len(state) >= state_size
    /\  LET reduced == Slice03(state)
            sample  == NoiseSample(self.noise, xi)
            action  == Act(self.actor_local, reduced, sample)
            stored  == IF StoreGuard(self.last_state, self.last_action)
                       THEN Some(Transition(Val(self.last_state), Val(self.last_action),
                                            reward, reduced, done))
                       ELSE None
            mem1    == IF stored # None
                       THEN MemoryAdd(self.memory, MemoryCapacity(self.buffer_size),
                                      Val(stored))
                       ELSE self.memory
            pool    == MemoryAtLearn(self.memory, mem1)
            gate    == LearnGate(Len(pool), self.batch_size)
        IN  \E experiences \in
                (IF gate THEN MemorySample(pool, self.batch_size) ELSE {<<>>}) :
            LET L      == Learn(Params(self), self.gamma, self.tau, experiences)
                after  == IF gate THEN L.after ELSE Params(self)
                total1 == Accumulate(self.total_reward, reward)
                self1  == [last_state |-> Some(reduced), last_action |-> Some(action),
                           total_reward |-> total1, count |-> self.count]
                self2  == IF done THEN ResetEpisodeVars(self1) ELSE self1
            IN  /\ gate => L.ok
                /\ self' = [self EXCEPT
                       !.noise = NoiseAfterCall(sample, done),
                       !.memory = mem1,
                       !.actor_local = after[1],
                       !.actor_target = after[2],
                       !.critic_local = after[3],
                       !.critic_target = after[4],
                       !.last_state = self2.last_state,
                       !.last_action = self2.last_action,
                       !.total_reward = self2.total_reward,
                       !.count = self2.count,
                       !.episode_num = IF done THEN @ + 1 ELSE @]
                /\ stats_file' = IF done
                                 THEN WriteStats(stats_file, <<self.episode_num, total1>>)
                                 ELSE stats_file
                /\ learns' = IF gate THEN Append(learns, L) ELSE learns
                /\ hist' = Append(hist,
                       [state |-> state, reward |-> reward, done |-> done,
                        reduced |-> reduced,
                        predicted |-> ActorPredict(self.actor_local, reduced),
                        noise_before |-> self.noise, xi |-> xi,
                        sample |-> sample, action |-> action,
                        ret |-> CompleteAction(action),
                        stored |-> stored,
                        recorded |-> self1.last_action,
                        len_before |-> Len(self.memory), len_after |-> Len(mem1),
                        memory |-> mem1,
                        pool |-> IF gate THEN Some(pool) ELSE None,
                        batch |-> IF gate THEN Some(experiences) ELSE None,
                        learned |-> IF gate THEN 1 ELSE 0,
                        batch_size |-> self.batch_size,
                        before |-> Params(self), after |-> after])
                /\ softs' = softs
                /\ errors' = errors

-----------------------------------------------------------------------------
(* Construction                                                            *)

BufferSizeSrc == 100000
BatchSizeSrc  == 64
GammaSrc == Rat(7, 10)
TauSrc   == Rat(1, 1000)

\* initial weights <<actor, critic>> of the local networks
InitWeights == { <<RI(0), RI(1)>> }

\* __init__ with the hyper-parameters h: the targets start as copies of the
\* locals, the episode variables are reset, episode_num is 1
Construct(h) ==
    /\ \E w \in InitWeights :
          self = [buffer_size |-> h.buffer_size, batch_size |-> h.batch_size,
                  gamma |-> h.gamma, tau |-> h.tau,
                  actor_local |-> w[1], actor_target |-> w[1],
                  critic_local |-> w[2], critic_target |-> w[2],
                  noise |-> NoiseMu,
                  memory |-> <<>>,
                  last_state |-> None, last_action |-> None,
                  total_reward |-> 0, count |-> 0,
                  episode_num |-> 1]
    /\ stats_file = None
    /\ hist = <<>>
    /\ learns = <<>>
    /\ softs = <<>>
    /\ errors = <<>>

SrcHyper == [buffer_size |-> BufferSizeSrc, batch_size |-> BatchSizeSrc,
             gamma |-> GammaSrc, tau |-> TauSrc]

\* scaled-down instances of the agent
SmallHyper ==
    { [buffer_size |-> 2, batch_size |-> 1, gamma |-> GammaSrc, tau |-> Rat(1, 2)] }

-----------------------------------------------------------------------------
(* Spec: any sequence of step() calls on a scaled-down agent.              *)

\* what the task hands to step(): a raw state vector and a reward
Observations == { [state |-> <<0, 1, 0, 9>>, reward |-> 1],
                  [state |-> <<1, 0, 2, 9>>, reward |-> 2] }

Init == \E h \in SmallHyper : Construct(h)

Next ==
    /\ Len(hist) < MaxCalls
    /\ \E o \in Observations, done \in BOOLEAN, xi \in Xi :
          Step(o.state, o.reward, done, xi)

Spec == Init /\ [][Next]_vars

-----------------------------------------------------------------------------
(* SpecE2E: the agent as constructed, fed one episode of constant input.   *)

InitE2E == Construct(SrcHyper)

NextE2E ==
    /\ Len(hist) < MaxCallsE2E
    /\ self.episode_num = 1          \* the first episode has not ended
    /\ \E done \in BOOLEAN : Step(<<0, 1, 0, 9>>, 1, done, <<0, 0, 0>>)

SpecE2E == InitE2E /\ [][NextE2E]_vars

-----------------------------------------------------------------------------
(* SpecLearn: learn() called directly on a freshly constructed agent.      *)

LearnHyper ==
    { [buffer_size |-> 2, batch_size |-> 1, gamma |-> GammaSrc, tau |-> Rat(1, 2)],
      [buffer_size |-> 2, batch_size |-> 1, gamma |-> GammaSrc, tau |-> Rat(1, 10)] }

T1 == Transition(<<0, 1, 0>>, <<0, 1, 0>>, 1, <<1, 0, 2>>, FALSE)
T2 == Transition(<<1, 0, 2>>, <<1, -1, 2>>, 2, <<0, 1, 0>>, TRUE)
T3 == Transition(<<1, 0, 2>>, <<-1, 0, -2>>, 2, <<1, 0, 2>>, FALSE)

\* the batches handed to learn(): sample() results, some with None entries
Batches ==
    { <<Some(T1)>>, <<Some(T1), Some(T2)>>, <<None, Some(T2)>>,
      <<Some(T3), Some(T1)>>, <<None>> }

\* learn(experiences); on an empty batch it raises and nothing is assigned
LearnCall(experiences) ==
    LET L == Learn(Params(self), self.gamma, self.tau, experiences)
    IN  /\ self' = [self EXCEPT
                !.actor_local = L.after[1],
                !.actor_target = L.after[2],
                !.critic_local = L.after[3],
                !.critic_target = L.after[4]]
        /\ learns' = Append(learns, L)
        /\ UNCHANGED <<stats_file, hist, softs, errors>>

InitLearn == \E h \in LearnHyper : Construct(h)

NextLearn ==
    /\ Len(learns) < MaxLearns
    /\ \E experiences \in Batches : LearnCall(experiences)

SpecLearn == InitLearn /\ [][NextLearn]_vars

-----------------------------------------------------------------------------
(* SpecSoft: soft_update() called directly, for any tau in [0, 1] and any  *)
(* local and target parameters.                                            *)

Taus    == { RI(0), Rat(1, 10), Rat(1, 2), RI(1) }
Weights == { RI(-1), Rat(1, 2), RI(2) }

\* what one soft_update(local_model, target_model) call did
SoftRecord(net, t, l0, t0, l1, t1) ==
    [net |-> net, tau |-> t, local_before |-> l0, target_before |-> t0,
     local_after |-> l1, target_after |-> t1]

\* self.soft_update(self.critic_local.model, self.critic_target.model)
SoftUpdateCritic ==
    LET new_weights == SoftUpdateWeights(self.tau, self.critic_local, self.critic_target)
    IN  /\ self' = [self EXCEPT !.critic_target = new_weights]
        /\ softs' = Append(softs, SoftRecord("critic", self.tau,
                               self.critic_local, self.critic_target,
                               self.critic_local, new_weights))
        /\ UNCHANGED <<stats_file, hist, learns, errors>>

\* self.soft_update(self.actor_local.model, self.actor_target.model)
SoftUpdateActor ==
    LET new_weights == SoftUpdateWeights(self.tau, self.actor_local, self.actor_target)
    IN  /\ self' = [self EXCEPT !.actor_target = new_weights]
        /\ softs' = Append(softs, SoftRecord("actor", self.tau,
                               self.actor_local, self.actor_target,
                               self.actor_local, new_weights))
        /\ UNCHANGED <<stats_file, hist, learns, errors>>

InitSoft ==
    /\ \E t \in Taus, al \in Weights, at \in Weights, cl \in Weights, ct \in Weights :
          self = [buffer_size |-> BufferSizeSrc, batch_size |-> BatchSizeSrc,
                  gamma |-> GammaSrc, tau |-> t,
                  actor_local |-> al, actor_target |-> at,
                  critic_local |-> cl, critic_target |-> ct,
                  noise |-> NoiseMu,
                  memory |-> <<>>,
                  last_state |-> None, last_action |-> None,
                  total_reward |-> 0, count |-> 0,
                  episode_num |-> 1]
    /\ stats_file = None
    /\ hist = <<>>
    /\ learns = <<>>
    /\ softs = <<>>
    /\ errors = <<>>

NextSoft ==
    /\ Len(softs) < MaxSofts
    /\ (SoftUpdateCritic \/ SoftUpdateActor)

SpecSoft == InitSoft /\ [][NextSoft]_vars

-----------------------------------------------------------------------------
(* SpecCap: step() calls on agents of several buffer capacities; the       *)
(* batch size keeps the learning gate shut.                                *)

CapHyper ==
    { [buffer_size |-> c, batch_size |-> 3, gamma |-> GammaSrc, tau |-> Rat(1, 2)] :
          c \in 1..3 }

InitCap == \E h \in CapHyper : Construct(h)

NextCap ==
    /\ Len(hist) < MaxCallsCap
    /\ \E o \in Observations, done \in BOOLEAN : Step(o.state, o.reward, done, <<0, 0, 0>>)

SpecCap == InitCap /\ [][NextCap]_vars

-----------------------------------------------------------------------------
(* SpecShort: step() calls whose raw state may be shorter than state_size. *)
(* step() does not look at the length of state: state[0:3] is the whole of *)
(* a short state and act() hands it to np.reshape(states, [-1, 3]).        *)

\* np.reshape(states, [-1, self.state_size]) raises unless the size is a
\* multiple of state_size; a state of size 0 becomes an array of 0 rows
ReshapeRaises(states) == Len(states) % state_size # 0

\* what a call on an empty state can do after the reshape: predict may reject
\* the empty batch; if it returns an empty result, noise.sample() runs and
\* then either the addition raises or the assignment to complete_action does
EmptyOutcomes == {"predict_raises", "add_raises", "assign_raises"}

ErrorRecord(state, at, after_self, after_file) ==
    [state |-> state, at |-> at,
     before |-> <<self, stats_file>>, after |-> <<after_self, after_file>>]

\* step(state, reward, done) with len(state) < state_size
StepShort(state, reward, done, xi) ==
    /\ Len(state) < state_size
    /\ \E at \in (IF ReshapeRaises(Slice03(state)) THEN {"reshape_raises"}
                   ELSE EmptyOutcomes) :
          LET sample == NoiseSample(self.noise, xi)
              stored == IF StoreGuard(self.last_state, self.last_action)
                        THEN Some(Transition(Val(self.last_state), Val(self.last_action),
                                             reward, Slice03(state), done))
                        ELSE None
              mem1   == IF stored # None
                        THEN MemoryAdd(self.memory, MemoryCapacity(self.buffer_size),
                                       Val(stored))
                        ELSE self.memory
              total1 == Accumulate(self.total_reward, reward)
              self1  == [last_state |-> Some(Slice03(state)), last_action |-> Some(<<>>),
                         total_reward |-> total1, count |-> self.count]
              self2  == IF done THEN ResetEpisodeVars(self1) ELSE self1
              sampled == [self EXCEPT !.noise = sample]
              through == [self EXCEPT
                             !.noise = NoiseAfterCall(sample, done),
                             !.memory = mem1,
                             !.last_state = self2.last_state,
                             !.last_action = self2.last_action,
                             !.total_reward = self2.total_reward,
                             !.count = self2.count,
                             !.episode_num = IF done THEN @ + 1 ELSE @]
          IN  /\ at = "assign_raises" => ~LearnGate(Len(mem1), self.batch_size)
              /\ self' = CASE at \in {"reshape_raises", "predict_raises"} -> self
                            [] at = "add_raises" -> sampled
                            [] at = "assign_raises" -> through
              /\ stats_file' = IF at = "assign_raises" /\ done
                               THEN WriteStats(stats_file, <<self.episode_num, total1>>)
                               ELSE stats_file
              /\ errors' = Append(errors, ErrorRecord(state, at, self', stats_file'))
              /\ UNCHANGED <<hist, learns, softs>>

ShortHyper ==
    { [buffer_size |-> 2, batch_size |-> 3, gamma |-> GammaSrc, tau |-> Rat(1, 2)] }

ShortStates == { <<>>, <<5>>, <<5, 6>> }

InitShort == \E h \in ShortHyper : Construct(h)

NextShort ==
    /\ Len(hist) + Len(errors) < MaxCallsShort
    /\ \/ \E o \in Observations, done \in BOOLEAN : Step(o.state, o.reward, done, <<1, -1, 0>>)
       \/ \E s \in ShortStates, done \in BOOLEAN : StepShort(s, 1, done, <<1, -1, 0>>)

SpecShort == InitShort /\ [][NextShort]_vars

-----------------------------------------------------------------------------
(* Properties                                                              *)

\* C1 (as stated): in the one episode fed to the agent as constructed
\* (batch_size = 64), no call before the 65th learns and the 65th call and
\* every call after it learns exactly once.
C1_FirstLearnAt65 ==
    \A i \in 1..Len(hist) :
        hist[i].learned = (IF i >= BatchSizeSrc + 1 THEN 1 ELSE 0)

\* C1 (amended): in the one episode fed to the agent as constructed
\* (batch_size = 64), no call before the 66th learns, and the 66th call and
\* every call after it learns exactly once: the first call stores nothing and
\* the gate is strict, so the buffer first exceeds 64 entries in call 66.
C1_FirstLearnAt66 ==
    /\ \A i \in 1..Len(hist) :
          hist[i].learned = (IF i >= BatchSizeSrc + 2 THEN 1 ELSE 0)
    /\ Len(learns) = Max(0, Len(hist) - (BatchSizeSrc + 1))

C1_Witness ==
    /\ Len(hist) >= BatchSizeSrc + 2
    /\ hist[BatchSizeSrc + 2].learned = 1
    /\ hist[BatchSizeSrc + 2].len_after = BatchSizeSrc + 1
    /\ \A i \in 1..(BatchSizeSrc + 1) : ~hist[i].done

\* C2: a step() call learns exactly once when the buffer, measured after the
\* call's optional store, is longer than batch_size, and not at all otherwise;
\* sample(batch_size) is never invoked on a buffer shorter than batch_size.
C2_LearnIffBufferExceedsBatch ==
    /\ \A i \in 1..Len(hist) :
          /\ hist[i].learned = (IF hist[i].len_after > hist[i].batch_size THEN 1 ELSE 0)
          /\ (hist[i].batch # None) <=> (hist[i].learned = 1)
          /\ hist[i].batch # None =>
                /\ Len(Val(hist[i].pool)) >= hist[i].batch_size
                /\ Len(Val(hist[i].batch)) = hist[i].batch_size
    /\ Len(learns) = Cardinality({i \in 1..Len(hist) : hist[i].learned = 1})

C2_Witness ==
    \E i, j \in 1..Len(hist) :
        /\ hist[i].len_after = hist[i].batch_size
        /\ hist[i].learned = 0
        /\ hist[j].len_after = hist[j].batch_size + 1
        /\ hist[j].learned = 1

\* C3: a step() call adds one transition (last_state, last_action, reward,
\* reduced state, done), taken from the preceding call of the same episode,
\* exactly when it is not the first call of its episode; the first call of an
\* episode adds nothing, so no stored transition spans two episodes.
C3_StoreIffNotFirstOfEpisode ==
    /\ \A i \in 1..Len(hist) :
          LET first  == i = 1 \/ hist[i - 1].done
              before == IF i = 1 THEN <<>> ELSE hist[i - 1].memory
          IN  IF first
              THEN hist[i].stored = None /\ hist[i].memory = before
              ELSE /\ hist[i].stored =
                        Some(Transition(hist[i - 1].reduced, hist[i - 1].action,
                                        hist[i].reward, hist[i].reduced, hist[i].done))
                   /\ hist[i].memory =
                        MemoryAdd(before, self.buffer_size, Val(hist[i].stored))
    /\ \A k \in 1..Len(self.memory) :
          \E i \in 2..Len(hist) :
              /\ ~hist[i - 1].done
              /\ self.memory[k].state = hist[i - 1].reduced
              /\ self.memory[k].action = hist[i - 1].action
              /\ self.memory[k].next_state = hist[i].reduced
              /\ self.memory[k].reward = hist[i].reward
              /\ self.memory[k].done = hist[i].done

C3_Witness ==
    /\ Len(hist) >= 4
    /\ hist[2].stored # None
    /\ hist[2].done
    /\ hist[3].stored = None
    /\ hist[3].len_after = hist[2].len_after
    /\ hist[4].stored # None

\* C4: every done=True call appends one stats row and no other call appends
\* any; the row of the k-th done=True call is episode k with the sum of the
\* rewards of all calls of that episode.
C4_StatsRowPerEpisode ==
    LET ends == {i \in 1..Len(hist) : hist[i].done}
        rows == IF stats_file = None THEN <<>>
                ELSE SelectSeq(Val(stats_file), LAMBDA l : ~l.header)
    IN  /\ Len(rows) = Cardinality(ends)
        /\ \A i \in ends :
              LET k     == Cardinality({j \in ends : j <= i})
                  start == IF k = 1 THEN 1
                           ELSE 1 + CHOOSE j \in ends :
                                      j < i /\ \A m \in ends : m < i => m <= j
                  total == Sum([j \in 1..(i - start + 1) |-> hist[start + j - 1].reward])
              IN  rows[k] = [header |-> FALSE, episode |-> k, total_reward |-> total]

C4_Witness ==
    /\ stats_file # None
    /\ Len(Val(stats_file)) = 3
    /\ Val(stats_file)[2].total_reward = 2
    /\ Val(stats_file)[3] = [header |-> FALSE, episode |-> 2, total_reward |-> 4]
    /\ ~hist[Len(hist)].done

\* C5: the parameters change only inside step() calls that learn; in a
\* learning step no training is applied to a target network, and each target
\* ends as the soft update of its value before the step with the local
\* network as trained in the step.
C5_TargetsChangeOnlyBySoftUpdate ==
    /\ \A i \in 1..Len(hist) :
          /\ IF i = 1
             THEN \E w \in InitWeights : hist[i].before = <<w[1], w[1], w[2], w[2]>>
             ELSE hist[i].before = hist[i - 1].after
          /\ hist[i].learned = 0 => hist[i].after = hist[i].before
    /\ Len(hist) > 0 => Params(self) = hist[Len(hist)].after
    /\ \A k \in 1..Len(learns) :
          LET L == learns[k]
              mix(l, t) == RAdd(RMul(L.tau, l), RMul(RSub(RI(1), L.tau), t))
          IN  /\ L.critic_fit[2] = L.before[4]
              /\ L.actor_fit[2] = L.before[2]
              /\ L.after[1] = L.actor_fit[1]
              /\ L.after[3] = L.critic_fit[1]
              /\ L.after[2] = mix(L.after[1], L.before[2])
              /\ L.after[4] = mix(L.after[3], L.before[4])

C5_Witness ==
    \E i, j \in 1..Len(hist) :
        /\ i < j
        /\ hist[i].learned = 0
        /\ hist[j].learned = 1
        /\ hist[j].after[4] # hist[j].before[4]
        /\ hist[j].after[3] # hist[j].before[3]

\* C6: in learn the regression target of a transition is its reward plus
\* gamma times the target critic's value of the next state at the target
\* actor's action when done is false, and the reward alone when done is true.
C6_TDTargetUsesTargetNetworks ==
    \A k \in 1..Len(learns) :
        LET L == learns[k]
        IN  L.ok =>
              \A i \in 1..Len(L.rewards) :
                 LET a_next == ActorPredict(L.before[2], L.next_states[i])
                     q_next == CriticPredict(L.before[4], L.next_states[i], a_next)
                 IN  /\ L.actions_next[i] = a_next
                     /\ L.Q_target_next[i] = q_next
                     /\ L.Q_targets[i] =
                           (IF L.dones[i] THEN RI(L.rewards[i])
                            ELSE RAdd(RI(L.rewards[i]), RMul(L.gamma, RI(q_next))))

C6_Witness ==
    \E k, m \in 1..Len(learns) :
        /\ learns[k].dones[1]
        /\ learns[k].Q_target_next[1] # 0
        /\ learns[k].Q_targets[1] = RI(learns[k].rewards[1])
        /\ ~learns[m].dones[1]
        /\ learns[m].Q_targets[1] # RI(learns[m].rewards[1])
        /\ learns[m].before[3] # learns[m].before[4]

\* C7: soft_update sets the target parameters to tau*local + (1 - tau)*target;
\* with tau = 1 they become the local parameters, with tau = 0 they stay as
\* they were, and the local parameters never change.
C7_SoftUpdateLaw ==
    \A k \in 1..Len(softs) :
        LET r == softs[k]
        IN  /\ r.target_after =
                  RAdd(RMul(r.tau, r.local_before),
                       RMul(RSub(RI(1), r.tau), r.target_before))
            /\ r.tau = RI(1) => r.target_after = r.local_before
            /\ r.tau = RI(0) => r.target_after = r.target_before
            /\ r.local_after = r.local_before
            /\ k = Len(softs) =>
                  IF r.net = "actor"
                  THEN self.actor_local = r.local_before /\ self.actor_target = r.target_after
                  ELSE self.critic_local = r.local_before /\ self.critic_target = r.target_after

C7_Witness ==
    /\ Len(softs) = 2
    /\ softs[1].tau = RI(1)
    /\ softs[1].net = "actor"
    /\ softs[1].local_before # softs[1].target_before
    /\ softs[1].target_after = softs[1].local_before
    /\ softs[2].net = "critic"
    /\ softs[2].target_after # softs[2].target_before

\* C8: after N learning steps with fixed tau each target parameter is
\* (1-tau)^N * theta_0 + tau * sum_{i=1..N} (1-tau)^(N-i) * local_i, theta_0
\* being the value local and target share at construction and local_i the
\* local parameter after the i-th learning step.
C8_TargetIsMovingAverage ==
    LET done_ok == SelectSeq(learns, LAMBDA L : L.ok)
        N       == Len(done_ok)
        q       == RSub(RI(1), self.tau)
        ewma(theta0, net) ==
            LET RECURSIVE S(_)
                S(i) == IF i = 0 THEN RI(0)
                        ELSE RAdd(S(i - 1),
                                  RMul(RPow(q, N - i), done_ok[i].after[net]))
            IN  RAdd(RMul(RPow(q, N), theta0), RMul(self.tau, S(N)))
    IN  /\ \A i \in 1..N : done_ok[i].tau = self.tau
        /\ \E w \in InitWeights :
              /\ self.actor_target = ewma(w[1], 1)
              /\ self.critic_target = ewma(w[2], 3)

C8_Witness ==
    /\ Len(learns) = 3
    /\ \A i \in 1..3 : learns[i].ok
    /\ learns[1].after[3] # learns[1].before[3]
    /\ learns[2].after[3] # learns[1].after[3]
    /\ learns[3].after[1] # learns[1].after[1]
    /\ self.critic_target # self.critic_local
    /\ self.actor_target # self.actor_local

\* C9: in a step() call that stores a transition and learns, the batch is
\* drawn from the buffer as it is after the store, the new transition
\* included.
C9_StoreBeforeSample ==
    \A i \in 1..Len(hist) :
        (hist[i].stored # None /\ hist[i].learned = 1) =>
            LET pool == Val(hist[i].pool)
            IN  /\ pool = hist[i].memory
                /\ Len(pool) > 0
                /\ pool[Len(pool)] = Val(hist[i].stored)
                /\ Val(hist[i].batch) \in MemorySample(hist[i].memory, hist[i].batch_size)

C9_Witness ==
    \E i \in 1..Len(hist) :
        /\ hist[i].stored # None
        /\ hist[i].learned = 1
        /\ Val(hist[i].batch) = <<hist[i].stored>>
        /\ hist[i].len_before < hist[i].len_after

\* C10: step() returns a vector of the action space's shape whose first three
\* entries are the local actor's prediction for the reduced state plus the
\* noise sample of the call, unclipped, and whose other entries are zero; the
\* action assigned to last_action is that reduced action.
C10_ReturnedAction ==
    \A i \in 1..Len(hist) :
        LET h == hist[i]
        IN  /\ Len(h.ret) = ActionSpaceShape
            /\ h.predicted = ActorPredict(h.before[1], Slice03(h.state))
            /\ \A j \in 1..ActionSpaceShape :
                  h.ret[j] = (IF j <= 3 THEN h.predicted[j] + h.sample[j] ELSE 0)
            /\ h.recorded = Some(SubSeq(h.ret, 1, 3))
            /\ i = Len(hist) =>
                  self.last_action = (IF h.done THEN None ELSE h.recorded)

C10_Witness ==
    \E i \in 1..Len(hist) :
        /\ \E j \in 1..3 : hist[i].ret[j] > action_high[j]
        /\ \E j \in 1..3 : hist[i].sample[j] # 0
        /\ ~hist[i].done
        /\ self.last_action = Some(hist[i].action)

\* C11: after a done=True call last_state and last_action are None and
\* total_reward is 0; after a done=False call last_state is the reduced state
\* of the call, last_action its action, and total_reward the sum of the
\* rewards of the current episode's calls so far.
C11_AccumulatorAfterCall ==
    Len(hist) > 0 =>
        LET n     == Len(hist)
            h     == hist[n]
            start == IF \E j \in 1..(n - 1) : hist[j].done
                     THEN 1 + CHOOSE j \in 1..(n - 1) :
                                  hist[j].done /\ \A m \in (j + 1)..(n - 1) : ~hist[m].done
                     ELSE 1
            total == Sum([j \in 1..(n - start + 1) |-> hist[start + j - 1].reward])
        IN  IF h.done
            THEN /\ self.last_state = None
                 /\ self.last_action = None
                 /\ self.total_reward = 0
            ELSE /\ self.last_state = Some(Slice03(h.state))
                 /\ self.last_action = Some(h.action)
                 /\ self.total_reward = total

C11_Witness ==
    /\ Len(hist) = 4
    /\ hist[1].done
    /\ self.total_reward = 5
    /\ self.last_state = Some(<<1, 0, 2>>)
    /\ self.last_action # None

\* C12: the stats file holds one row per completed episode, in order, below
\* a single header line that is written with the first row; before the first
\* episode ends nothing has been written.
C12_HeaderOnceRowPerEpisode ==
    LET ends == {i \in 1..Len(hist) : hist[i].done}
    IN  IF ends = {}
        THEN stats_file = None
        ELSE /\ stats_file # None
             /\ Len(Val(stats_file)) = 1 + Cardinality(ends)
             /\ Val(stats_file)[1] = HeaderLine
             /\ \A k \in 2..Len(Val(stats_file)) :
                   /\ ~Val(stats_file)[k].header
                   /\ Val(stats_file)[k].episode = k - 1

C12_Witness ==
    /\ stats_file # None
    /\ Len(Val(stats_file)) = 4
    /\ Val(stats_file)[4].episode = 3
    /\ Cardinality({i \in 1..Len(hist) : hist[i].done}) = 3

\* C13: the replay buffer never holds more than its capacity C; once C + k
\* transitions have been added (k >= 0) it holds exactly C, and at any time
\* it holds the most recently added transitions, oldest first.
C13_BufferKeepsLastC ==
    LET idx    == {i \in 1..Len(hist) : hist[i].stored # None}
        n      == Cardinality(idx)
        C      == self.buffer_size
        ith(r) == CHOOSE i \in idx : Cardinality({j \in idx : j <= i}) = r
        len    == Len(self.memory)
    IN  /\ len <= C
        /\ len = Min(C, n)
        /\ \A k \in 1..len : self.memory[k] = Val(hist[ith(n - len + k)].stored)
        /\ \A i \in 1..Len(hist) : hist[i].len_after <= C

C13_Witness ==
    /\ self.buffer_size = 3
    /\ Cardinality({i \in 1..Len(hist) : hist[i].stored # None}) = 4
    /\ Len(self.memory) = 3
    /\ self.memory[1] # Val(hist[2].stored)
    /\ self.memory[1] = Val(hist[3].stored)
    /\ self.memory[3] = Val(hist[5].stored)

\* C14: a learn call computes the TD targets from the target networks as
\* they are before any change, trains critic_local on them, takes the action
\* gradients from the critic_local so trained, trains actor_local with them,
\* and then soft-updates both targets from the trained locals, each once.
C14_LearnOrder ==
    \A k \in 1..Len(learns) :
        LET L == learns[k]
            n == Len(L.states)
            mix(l, t) == RAdd(RMul(L.tau, l), RMul(RSub(RI(1), L.tau), t))
            a_next == [i \in 1..n |-> ActorPredict(L.before[2], L.next_states[i])]
            q_next == [i \in 1..n |->
                          CriticPredict(L.before[4], L.next_states[i], a_next[i])]
        IN  L.ok =>
              /\ \A i \in 1..n : L.Q_target_next[i] = q_next[i]
              /\ L.Q_targets = QTargets(L.rewards, L.gamma, L.Q_target_next, L.dones)
              /\ L.critic_fit =
                    <<CriticTrain(L.before[3], L.states, L.actions, L.Q_targets),
                      L.before[4]>>
              /\ \A i \in 1..n :
                    L.action_gradients[i] =
                        CriticActionGradients(L.critic_fit[1], L.states[i], L.actions[i])
              /\ L.actor_fit =
                    <<ActorTrain(L.before[1], L.states, L.action_gradients), L.before[2]>>
              /\ L.after = <<L.actor_fit[1], mix(L.actor_fit[1], L.before[2]),
                             L.critic_fit[1], mix(L.critic_fit[1], L.before[4])>>

C14_Witness ==
    \E k \in 1..Len(learns) :
        LET L == learns[k]
        IN  /\ L.ok
            /\ Len(L.states) = 2
            /\ L.critic_fit[1] # L.before[3]
            /\ L.action_gradients[1] #
                   CriticActionGradients(L.before[3], L.states[1], L.actions[1])
            /\ L.actor_fit[1] # L.before[1]
            /\ L.after[2] # L.before[2]
            /\ L.after[4] # L.before[4]
            /\ L.before[3] # L.before[4]

\* C15: every step() call advances the noise state by exactly one sample and
\* nothing else touches it: a call starts from the state the previous call
\* left, whether or not that call learned or ended an episode.
C15_NoiseAdvancesOncePerStep ==
    /\ \A i \in 1..Len(hist) :
          /\ hist[i].noise_before = (IF i = 1 THEN NoiseMu ELSE hist[i - 1].sample)
          /\ hist[i].sample = NoiseSample(hist[i].noise_before, hist[i].xi)
    /\ self.noise = (IF Len(hist) = 0 THEN NoiseMu ELSE hist[Len(hist)].sample)

C15_Witness ==
    \E i \in 1..(Len(hist) - 1) :
        /\ hist[i].done
        /\ hist[i].learned = 1
        /\ hist[i].sample # NoiseMu
        /\ hist[i + 1].noise_before = hist[i].sample
        /\ hist[i + 1].sample # hist[i].sample
        /\ hist[i + 1].stored = None

\* C16: a step() call whose raw state is shorter than state_size (length 0, 1
\* or 2) raises before anything changes: replay buffer, episode accumulator,
\* episode number, noise state, network parameters and stats file are as they
\* were before the call.
C16_ShortStateChangesNothing ==
    \A k \in 1..Len(errors) :
        Len(errors[k].state) < state_size => errors[k].after = errors[k].before

\* C17: learn stacks the entries of the batch that are not None, in order;
\* when none is left it fails and the four parameter sets stay as they were:
\* no training and no soft update.
C17_EmptyBatchFailsUnchanged ==
    /\ \A k \in 1..Len(learns) :
          LET L    == learns[k]
              kept == {i \in 1..Len(L.experiences) : L.experiences[i] # None}
              ith(r) == CHOOSE i \in kept : Cardinality({j \in kept : j <= i}) = r
          IN  /\ L.ok <=> kept # {}
              /\ IF k = 1
                 THEN \E w \in InitWeights : L.before = <<w[1], w[1], w[2], w[2]>>
                 ELSE L.before = learns[k - 1].after
              /\ L.ok =>
                    /\ Len(L.states) = Cardinality(kept)
                    /\ \A r \in 1..Len(L.states) :
                          /\ L.states[r] = Val(L.experiences[ith(r)]).state
                          /\ L.actions[r] = Val(L.experiences[ith(r)]).action
                          /\ L.rewards[r] = Val(L.experiences[ith(r)]).reward
                          /\ L.dones[r] = Val(L.experiences[ith(r)]).done
                          /\ L.next_states[r] = Val(L.experiences[ith(r)]).next_state
              /\ ~L.ok =>
                    /\ L.after = L.before
                    /\ L.critic_fit = <<L.before[3], L.before[4]>>
                    /\ L.actor_fit = <<L.before[1], L.before[2]>>
    /\ Len(learns) > 0 => Params(self) = learns[Len(learns)].after

C17_Witness ==
    /\ Len(learns) = 3
    /\ learns[1].ok
    /\ learns[1].experiences = <<None, Some(T2)>>
    /\ Len(learns[1].states) = 1
    /\ learns[2].ok
    /\ ~learns[3].ok
    /\ learns[3].experiences = <<None>>
    /\ self.critic_local # self.critic_target
    /\ self.actor_local # self.actor_target
    /\ Params(self) = learns[2].after

\* C18: with a buffer capacity above batch_size, once a step() call has
\* learned every later call learns exactly once, the first call of a new
\* episode, which stores nothing, included.
C18_LearningNeverStops ==
    self.buffer_size > self.batch_size =>
        /\ \A i, j \in 1..Len(hist) :
              (i < j /\ hist[i].learned = 1) => hist[j].learned = 1
        /\ Len(learns) = Cardinality({i \in 1..Len(hist) : hist[i].learned = 1})

C18_Witness ==
    \E i \in 1..(Len(hist) - 1) :
        /\ self.buffer_size > self.batch_size
        /\ hist[i].learned = 1
        /\ hist[i].done
        /\ hist[i + 1].stored = None
        /\ hist[i + 1].len_after = hist[i + 1].len_before
        /\ hist[i + 1].learned = 1

====
